---- MODULE Spec2Model ----
(***************************************************************************)
(* Model of the curve-generic PLONK facade (backend/plonk/plonk.go), the   *)
(* MiMC encryption gadget (std/hash/mimc/encrypt.go) and the Fp2 gadget    *)
(* exercised by the fields tests.                                          *)
(*                                                                         *)
(* A Go interface value is modelled by its dynamic type, a record          *)
(* [curve, struct]: the package (curve) that defines the concrete struct   *)
(* and the struct's name.  A panic is an outcome of kind "panic"; a        *)
(* returned error is an outcome of kind "return" with err # "nil".         *)
(***************************************************************************)
EXTENDS Integers, Sequences, FiniteSets, TLC

VARIABLES op, args, ret, invoked, built, builtFrom, cs, out, wit, sol

vars == <<op, args, ret, invoked, built, builtFrom, cs, out, wit, sol>>

facadeVars == <<op, args, ret, invoked>>
hashVars == <<built, builtFrom>>
circuitVars == <<cs, out, wit, sol>>

-----------------------------------------------------------------------------
(* The curve registry of the facade: the seven packages imported by        *)
(* plonk.go.                                                                *)
Curves == {"BN254", "BLS12_381", "BLS12_377", "BW6_761", "BLS24_317", "BLS24_315", "BW6_633"}

(* ecc.ID values: the registry plus identifiers the facade does not wire.  *)
CurveIDs == Curves \cup {"UNKNOWN", "SECP256K1"}

(* Packages a concrete struct can come from: a registry curve or none.     *)
Packages == Curves \cup {"foreign"}

Dyn(c, s) == [curve |-> c, struct |-> s]

NoArg == Dyn("-", "-")

(* Dynamic types a constraint.ConstraintSystem can have: the PLONK         *)
(* SparseR1CS of a curve, the R1CS of a curve, or a foreign struct.        *)
CSTypes == {Dyn(c, s) : c \in Curves, s \in {"SparseR1CS", "R1CS"}} \cup {Dyn("foreign", "SparseR1CS")}

SRSTypes == {Dyn(c, "SRS") : c \in Packages}

PKTypes == {Dyn(c, "ProvingKey") : c \in Packages}

VKTypes == {Dyn(c, "VerifyingKey") : c \in Packages}

ProofTypes == {Dyn(c, "Proof") : c \in Packages}

(* What publicWitness.Vector() can hold: an fr.Vector of some curve, a     *)
(* foreign value, or nil.                                                   *)
VectorTypes == {Dyn(c, "Vector") : c \in Packages} \cup {Dyn("nil", "nil")}

(* Outcomes of the curve-specific routines the facade delegates to.        *)
RoutineResults == {"ok", "error"}

-----------------------------------------------------------------------------
(* Outcomes of a facade call.                                              *)
Return(v1, v2, e) == [kind |-> "return", val |-> v1, val2 |-> v2, err |-> e, msg |-> ""]

Panic(m) == [kind |-> "panic", val |-> NoArg, val2 |-> NoArg, err |-> "nil", msg |-> m]

NoRet == [kind |-> "none", val |-> NoArg, val2 |-> NoArg, err |-> "nil", msg |-> ""]

(* One delegated call: which routine of which curve package, and the       *)
(* dynamic types of the arguments handed to it.                            *)
Delegated(r, c, a) == [routine |-> r, curve |-> c, with |-> a]

(* A Go type switch: the curve of the first case whose type is the         *)
(* dynamic type t, "default" when no case matches.                         *)
RECURSIVE TypeSwitchFrom(_, _, _, _)
TypeSwitchFrom(cases, s, t, i) ==
  IF i > Len(cases) THEN "default"
  ELSE IF t = Dyn(cases[i], s) THEN cases[i]
  ELSE TypeSwitchFrom(cases, s, t, i + 1)

TypeSwitch(cases, s, t) == TypeSwitchFrom(cases, s, t, 1)

\* x.(T) with T a pointer to a struct of package c: a type assertion without
\* ", ok" panics unless it holds.
TypeAssert(x, c, s) == x = Dyn(c, s)

-----------------------------------------------------------------------------
(* Setup                                                                    *)
SetupCases == <<"BN254", "BLS12_381", "BLS12_377", "BW6_761", "BLS24_317", "BLS24_315", "BW6_633">>

(* The curve-specific plonk_X.Setup, an external routine: returns keys of  *)
(* its own curve, or an error.                                              *)
CurveSetup(c, r) ==
  IF r = "ok" THEN Return(Dyn(c, "ProvingKey"), Dyn(c, "VerifyingKey"), "nil")
  ELSE Return(NoArg, NoArg, "setup error")

SetupAnySRS(ccs, kzgSrs, r) ==
  LET c == TypeSwitch(SetupCases, "SparseR1CS", ccs) IN
  IF c = "default" THEN [ret |-> Panic("unrecognized SparseR1CS curve type"), invoked |-> <<>>]
  ELSE [ret |-> CurveSetup(c, r), invoked |-> <<Delegated("Setup", c, <<ccs, kzgSrs>>)>>]

SetupFallThrough(ccs, kzgSrs, r) ==
  LET c == TypeSwitch(SetupCases, "SparseR1CS", ccs) IN
  IF c = "default" THEN [ret |-> Return(NoArg, NoArg, "nil"), invoked |-> <<>>]
  ELSE IF ~TypeAssert(kzgSrs, c, "SRS")
    THEN [ret |-> Panic("interface conversion"), invoked |-> <<>>]
  ELSE [ret |-> CurveSetup(c, r), invoked |-> <<Delegated("Setup", c, <<ccs, kzgSrs>>)>>]

Setup(ccs, kzgSrs, r) ==
  LET c == TypeSwitch(SetupCases, "SparseR1CS", ccs) IN
  IF c = "default" THEN [ret |-> Panic("unrecognized SparseR1CS curve type"), invoked |-> <<>>]
  ELSE IF ~TypeAssert(kzgSrs, c, "SRS")
    THEN [ret |-> Panic("interface conversion"), invoked |-> <<>>]
  ELSE [ret |-> CurveSetup(c, r), invoked |-> <<Delegated("Setup", c, <<ccs, kzgSrs>>)>>]

-----------------------------------------------------------------------------
(* Prove                                                                    *)
ProveCases == <<"BN254", "BLS12_381", "BLS12_377", "BW6_761", "BW6_633", "BLS24_317", "BLS24_315">>

(* The curve-specific plonk_X.Prove: a proof of its curve, or an error     *)
(* such as an unsatisfied constraint.                                       *)
CurveProve(c, r) ==
  IF r = "ok" THEN Return(Dyn(c, "Proof"), NoArg, "nil")
  ELSE Return(NoArg, NoArg, "prover error")

ProveSwallow(ccs, pk, r) ==
  LET c == TypeSwitch(ProveCases, "SparseR1CS", ccs) IN
  IF c = "default" THEN [ret |-> Panic("unrecognized SparseR1CS curve type"), invoked |-> <<>>]
  ELSE IF ~TypeAssert(pk, c, "ProvingKey")
    THEN [ret |-> Panic("interface conversion"), invoked |-> <<>>]
  ELSE [ret |-> IF r = "ok" THEN CurveProve(c, r) ELSE Panic("prover error"),
        invoked |-> <<Delegated("Prove", c, <<ccs, pk>>)>>]

Prove(ccs, pk, r) ==
  LET c == TypeSwitch(ProveCases, "SparseR1CS", ccs) IN
  IF c = "default" THEN [ret |-> Panic("unrecognized SparseR1CS curve type"), invoked |-> <<>>]
  ELSE IF ~TypeAssert(pk, c, "ProvingKey")
    THEN [ret |-> Panic("interface conversion"), invoked |-> <<>>]
  ELSE [ret |-> CurveProve(c, r), invoked |-> <<Delegated("Prove", c, <<ccs, pk>>)>>]

-----------------------------------------------------------------------------
(* Verify                                                                   *)
VerifyCases == <<"BN254", "BLS12_381", "BLS12_377", "BW6_761", "BW6_633", "BLS24_317", "BLS24_315">>

(* The curve-specific plonk_X.Verify: nil, or a verification error.        *)
CurveVerify(c, r) ==
  IF r = "ok" THEN Return(NoArg, NoArg, "nil")
  ELSE Return(NoArg, NoArg, "verification failed")

\* w, ok := publicWitness.Vector().(fr_X.Vector)
VectorOk(vector, c) == vector = Dyn(c, "Vector")

VerifyUncheckedVector(proof, vk, vector, r) ==
  LET c == TypeSwitch(VerifyCases, "Proof", proof) IN
  IF c = "default" THEN [ret |-> Panic("unrecognized proof type"), invoked |-> <<>>]
  ELSE IF ~TypeAssert(vector, c, "Vector")
    THEN [ret |-> Panic("interface conversion"), invoked |-> <<>>]
  ELSE IF ~TypeAssert(vk, c, "VerifyingKey")
    THEN [ret |-> Panic("interface conversion"), invoked |-> <<>>]
  ELSE [ret |-> CurveVerify(c, r), invoked |-> <<Delegated("Verify", c, <<proof, vk, vector>>)>>]

Verify(proof, vk, vector, r) ==
  LET c == TypeSwitch(VerifyCases, "Proof", proof) IN
  IF c = "default" THEN [ret |-> Panic("unrecognized proof type"), invoked |-> <<>>]
  ELSE IF ~VectorOk(vector, c)
    THEN [ret |-> Return(NoArg, NoArg, "ErrInvalidWitness"), invoked |-> <<>>]
  ELSE IF ~TypeAssert(vk, c, "VerifyingKey")
    THEN [ret |-> Panic("interface conversion"), invoked |-> <<>>]
  ELSE [ret |-> CurveVerify(c, r), invoked |-> <<Delegated("Verify", c, <<proof, vk, vector>>)>>]

-----------------------------------------------------------------------------
(* Artifact constructors: a switch on ecc.ID.                               *)
NewCases == {"BN254", "BLS12_377", "BLS12_381", "BW6_761", "BLS24_317", "BLS24_315", "BW6_633"}

NewCS(curveID) ==
  IF curveID \in NewCases THEN Return(Dyn(curveID, "SparseR1CS"), NoArg, "nil")
  ELSE Panic("not implemented")

NewProvingKey(curveID) ==
  IF curveID \in NewCases THEN Return(Dyn(curveID, "ProvingKey"), NoArg, "nil")
  ELSE Panic("not implemented")

NewProofSwapped(curveID) ==
  IF curveID = "BLS12_377" THEN Return(Dyn("BLS12_381", "Proof"), NoArg, "nil")
  ELSE IF curveID = "BLS12_381" THEN Return(Dyn("BLS12_377", "Proof"), NoArg, "nil")
  ELSE IF curveID \in NewCases THEN Return(Dyn(curveID, "Proof"), NoArg, "nil")
  ELSE Panic("not implemented")

NewProof(curveID) ==
  IF curveID \in NewCases THEN Return(Dyn(curveID, "Proof"), NoArg, "nil")
  ELSE Panic("not implemented")

NewVerifyingKey(curveID) ==
  IF curveID \in NewCases THEN Return(Dyn(curveID, "VerifyingKey"), NoArg, "nil")
  ELSE Panic("not implemented")

-----------------------------------------------------------------------------
(* State machine of the facade: each action is one call, recorded with     *)
(* its arguments, its outcome and the routines it delegated to.            *)
Args(ccs, srs, pk, vk, proof, vector, id, r) ==
  [ccs |-> ccs, srs |-> srs, pk |-> pk, vk |-> vk, proof |-> proof,
   vector |-> vector, curveID |-> id, routine |-> r]

NoArgs == Args(NoArg, NoArg, NoArg, NoArg, NoArg, NoArg, "-", "-")

InitFacade ==
  /\ op = "none"
  /\ args = NoArgs
  /\ ret = NoRet
  /\ invoked = <<>>

InitHash ==
  /\ built = <<>>
  /\ builtFrom = <<>>

InitCircuit ==
  /\ cs = [nin |-> 0, gates |-> <<>>]
  /\ out = <<>>
  /\ wit = [h |-> 0, q |-> 0, ext |-> 0, in |-> <<>>]
  /\ sol = [ok |-> TRUE, val |-> <<>>]

Init == InitFacade /\ InitHash /\ InitCircuit

SetupCall ==
  \E ccs \in CSTypes, srs \in SRSTypes, r \in RoutineResults :
    LET o == Setup(ccs, srs, r) IN
    /\ op' = "Setup"
    /\ args' = [NoArgs EXCEPT !.ccs = ccs, !.srs = srs, !.routine = r]
    /\ ret' = o.ret
    /\ invoked' = o.invoked
    /\ UNCHANGED <<hashVars, circuitVars>>

ProveCall ==
  \E ccs \in CSTypes, pk \in PKTypes, r \in RoutineResults :
    LET o == Prove(ccs, pk, r) IN
    /\ op' = "Prove"
    /\ args' = [NoArgs EXCEPT !.ccs = ccs, !.pk = pk, !.routine = r]
    /\ ret' = o.ret
    /\ invoked' = o.invoked
    /\ UNCHANGED <<hashVars, circuitVars>>

VerifyCall ==
  \E proof \in ProofTypes, vk \in VKTypes, vector \in VectorTypes, r \in RoutineResults :
    LET o == Verify(proof, vk, vector, r) IN
    /\ op' = "Verify"
    /\ args' = [NoArgs EXCEPT !.proof = proof, !.vk = vk, !.vector = vector, !.routine = r]
    /\ ret' = o.ret
    /\ invoked' = o.invoked
    /\ UNCHANGED <<hashVars, circuitVars>>

NewCall(name, result) ==
  \E id \in CurveIDs :
    /\ op' = name
    /\ args' = [NoArgs EXCEPT !.curveID = id]
    /\ ret' = result[id]
    /\ invoked' = <<>>
    /\ UNCHANGED <<hashVars, circuitVars>>

NewCSCall == NewCall("NewCS", [id \in CurveIDs |-> NewCS(id)])

NewProvingKeyCall == NewCall("NewProvingKey", [id \in CurveIDs |-> NewProvingKey(id)])

NewProofCall == NewCall("NewProof", [id \in CurveIDs |-> NewProof(id)])

NewVerifyingKeyCall == NewCall("NewVerifyingKey", [id \in CurveIDs |-> NewVerifyingKey(id)])

Next ==
  \/ SetupCall
  \/ ProveCall
  \/ VerifyCall
  \/ NewCSCall
  \/ NewProvingKeyCall
  \/ NewProofCall
  \/ NewVerifyingKeyCall

Spec == Init /\ [][Next]_vars

-----------------------------------------------------------------------------
(* Scalar fields.  Each curve's fr is a prime field; the model keeps one   *)
(* small prime per curve so that every reduction wraps.  5 is coprime to   *)
(* q - 1 for the fifth-power curves and divides q - 1 for BLS12_377.       *)
MimcCurves == {"BN254", "BLS12_381", "BLS12_377", "BW6_761"}

Modulus(id) ==
  CASE id = "BN254" -> 7
    [] id = "BLS12_381" -> 13
    [] id = "BLS12_377" -> 11
    [] id = "BW6_761" -> 47

(* Largest distance from 0 (on either side, modulo q) of a sampled value.  *)
MaxSample == 1

(* Number of round constants NewParams derives.                            *)
NbRounds == 2

(* Number of hash states constructed in one behaviour.                     *)
MaxBuilt == 2

Samples(q) == {x \in 0..(q - 1) : x <= MaxSample \/ x >= q - 1 - MaxSample}

(* fr.Element keeps x as x * R mod q (Montgomery form), R a power of two.  *)
MontR == 16

ToMont(x, q) == (x * MontR) % q

(* v.ToBigIntRegular(&cpy): the regular value of a Montgomery element.     *)
ToBigIntRegular(v, q) ==
  LET rinv == CHOOSE y \in 0..(q - 1) : (y * MontR) % q = 1 IN (v * rinv) % q

(* The seeds callers pass, as the number their bytes encode.               *)
Seeds == {3, 20}

(* The external constant derivation: a hash chain started at the seed,     *)
(* each digest read as a field element.                                     *)
Digest(x) == (x * x * x + 5 * x + 11) % 251

RECURSIVE ParamsFrom(_, _, _)
ParamsFrom(rnd, q, n) ==
  IF n = 0 THEN <<>>
  ELSE <<ToMont(Digest(rnd) % q, q)>> \o ParamsFrom(Digest(rnd), q, n - 1)

NewParams(id, seed) == ParamsFrom(Digest(seed), Modulus(id), NbRounds)

-----------------------------------------------------------------------------
(* constructors                                                             *)

\* res := MiMC{}
EmptyMiMCShared ==
  IF built = <<>> THEN [params |-> <<>>, id |-> "UNKNOWN"] ELSE built[Len(built)]

EmptyMiMC == [params |-> <<>>, id |-> "UNKNOWN"]

(* for _, v := range params { v.ToBigIntRegular(&cpy); append(...) }       *)
RECURSIVE CopyParams(_, _, _, _)
CopyParams(res, params, q, i) ==
  IF i > Len(params) THEN res
  ELSE CopyParams([res EXCEPT !.params = Append(@, ToBigIntRegular(params[i], q))],
                  params, q, i + 1)

newMimcBLS377(seed) ==
  LET res == CopyParams(EmptyMiMC, NewParams("BLS12_377", seed), Modulus("BLS12_377"), 1)
  IN [res EXCEPT !.id = "BLS12_377"]

newMimcBLS381(seed) ==
  LET res == CopyParams(EmptyMiMC, NewParams("BLS12_381", seed), Modulus("BLS12_381"), 1)
  IN [res EXCEPT !.id = "BLS12_381"]

newMimcBN256(seed) ==
  LET res == CopyParams(EmptyMiMC, NewParams("BN254", seed), Modulus("BN254"), 1)
  IN [res EXCEPT !.id = "BN254"]

newMimcBW761(seed) ==
  LET res == CopyParams(EmptyMiMC, NewParams("BW6_761", seed), Modulus("BW6_761"), 1)
  IN [res EXCEPT !.id = "BW6_761"]

(* The newMimc table filled by init().                                      *)
newMimc(id, seed) ==
  CASE id = "BN254" -> newMimcBN256(seed)
    [] id = "BLS12_381" -> newMimcBLS381(seed)
    [] id = "BLS12_377" -> newMimcBLS377(seed)
    [] id = "BW6_761" -> newMimcBW761(seed)

-----------------------------------------------------------------------------
(* The constraint-system builder.  Wires 1..nin are the inputs; gate j     *)
(* defines wire nin + j.  An operand is a wire or a constant.              *)
Wire(i) == [k |-> "wire", v |-> i]

Const(c) == [k |-> "const", v |-> c]

NewBuilder(nin) == [nin |-> nin, gates |-> <<>>]

Emit(b, g, in) ==
  [cs |-> [b EXCEPT !.gates = Append(@, [g |-> g, in |-> in])],
   v |-> Wire(b.nin + Len(b.gates) + 1)]

csAdd(b, terms) == Emit(b, "add", terms)

csSub(b, x, y) == Emit(b, "sub", <<x, y>>)

csMul(b, x, y) == Emit(b, "mul", <<x, y>>)

csInverse(b, x) == Emit(b, "inv", <<x>>)

\* multiplication of a variable by a constant coefficient (a linear term)
csScal(b, c, x) == Emit(b, "scal", <<Const(c), x>>)

(* Solving: the gates are evaluated in order over the field of q elements. *)
(* An inversion gate enforces x * out = 1, so it has no solution at x = 0. *)
OperandValue(o, val, q) == IF o.k = "const" THEN o.v % q ELSE val[o.v]

RECURSIVE SumOperands(_, _, _, _)
SumOperands(in, val, q, i) ==
  IF i > Len(in) THEN 0
  ELSE (OperandValue(in[i], val, q) + SumOperands(in, val, q, i + 1)) % q

GateValuesExtendedInverse(gate, val, q) ==
  LET x == OperandValue(gate.in[1], val, q) IN
  CASE gate.g = "add" -> {SumOperands(gate.in, val, q, 1)}
    [] gate.g = "sub" -> {(x + q - OperandValue(gate.in[2], val, q)) % q}
    [] gate.g = "mul" -> {(x * OperandValue(gate.in[2], val, q)) % q}
    [] gate.g = "scal" -> {(x * OperandValue(gate.in[2], val, q)) % q}
    [] gate.g = "inv" -> IF x = 0 THEN {0} ELSE {y \in 0..(q - 1) : (x * y) % q = 1}

GateValues(gate, val, q) ==
  LET x == OperandValue(gate.in[1], val, q) IN
  CASE gate.g = "add" -> {SumOperands(gate.in, val, q, 1)}
    [] gate.g = "sub" -> {(x + q - OperandValue(gate.in[2], val, q)) % q}
    [] gate.g = "mul" -> {(x * OperandValue(gate.in[2], val, q)) % q}
    [] gate.g = "scal" -> {(x * OperandValue(gate.in[2], val, q)) % q}
    [] gate.g = "inv" -> {y \in 0..(q - 1) : (x * y) % q = 1}

RECURSIVE SolveFrom(_, _, _, _)
SolveFrom(gates, val, q, j) ==
  IF j > Len(gates) THEN [ok |-> TRUE, val |-> val]
  ELSE LET vs == GateValues(gates[j], val, q) IN
       IF vs = {} THEN [ok |-> FALSE, val |-> val]
       ELSE SolveFrom(gates, Append(val, CHOOSE y \in vs : TRUE), q, j + 1)

Solve(b, inputs, q) == SolveFrom(b.gates, [i \in 1..Len(inputs) |-> inputs[i] % q], q, 1)

-----------------------------------------------------------------------------
(* encryptions functions                                                    *)

RECURSIVE encryptBN256Loop(_, _, _, _, _)
encryptBN256Loop(b, h, res, key, i) ==
  IF i > Len(h.params) THEN [cs |-> b, v |-> res]
  ELSE LET tmp == csAdd(b, <<res, key, Const(h.params[i])>>)
           r1 == csMul(tmp.cs, tmp.v, tmp.v)
           r2 == csMul(r1.cs, r1.v, r1.v)
           r3 == csMul(r2.cs, r2.v, tmp.v)
       IN encryptBN256Loop(r3.cs, h, r3.v, key, i + 1)

encryptBN256NoFeedForward(b, h, message, key) ==
  encryptBN256Loop(b, h, message, key, 1)

encryptBN256(b, h, message, key) ==
  LET r == encryptBN256Loop(b, h, message, key, 1) IN csAdd(r.cs, <<r.v, key>>)

RECURSIVE encryptBLS381Loop(_, _, _, _, _)
encryptBLS381Loop(b, h, res, key, i) ==
  IF i > Len(h.params) THEN [cs |-> b, v |-> res]
  ELSE LET tmp == csAdd(b, <<res, key, Const(h.params[i])>>)
           r1 == csMul(tmp.cs, tmp.v, tmp.v)
           r2 == csMul(r1.cs, r1.v, r1.v)
           r3 == csMul(r2.cs, r2.v, tmp.v)
       IN encryptBLS381Loop(r3.cs, h, r3.v, key, i + 1)

RECURSIVE encryptBLS381NaiveLoop(_, _, _, _, _)
encryptBLS381NaiveLoop(b, h, res, key, i) ==
  IF i > Len(h.params) THEN [cs |-> b, v |-> res]
  ELSE LET tmp == csAdd(b, <<res, key, Const(h.params[i])>>)
           r1 == csMul(tmp.cs, tmp.v, tmp.v)
           r2 == csMul(r1.cs, r1.v, tmp.v)
           r3 == csMul(r2.cs, r2.v, tmp.v)
           r4 == csMul(r3.cs, r3.v, tmp.v)
       IN encryptBLS381NaiveLoop(r4.cs, h, r4.v, key, i + 1)

encryptBLS381Naive(b, h, message, key) ==
  LET r == encryptBLS381NaiveLoop(b, h, message, key, 1) IN csAdd(r.cs, <<r.v, key>>)

encryptBLS381(b, h, message, key) ==
  LET r == encryptBLS381Loop(b, h, message, key, 1) IN csAdd(r.cs, <<r.v, key>>)

RECURSIVE encryptBW761Loop(_, _, _, _, _)
encryptBW761Loop(b, h, res, key, i) ==
  IF i > Len(h.params) THEN [cs |-> b, v |-> res]
  ELSE LET tmp == csAdd(b, <<res, key, Const(h.params[i])>>)
           r1 == csMul(tmp.cs, tmp.v, tmp.v)
           r2 == csMul(r1.cs, r1.v, r1.v)
           r3 == csMul(r2.cs, r2.v, tmp.v)
       IN encryptBW761Loop(r3.cs, h, r3.v, key, i + 1)

encryptBW761(b, h, message, key) ==
  LET r == encryptBW761Loop(b, h, message, key, 1) IN csAdd(r.cs, <<r.v, key>>)

RECURSIVE encryptBLS377Loop(_, _, _, _, _)
encryptBLS377Loop(b, h, res, key, i) ==
  IF i > Len(h.params) THEN [cs |-> b, v |-> res]
  ELSE LET tmp == csAdd(b, <<res, Const(h.params[i]), key>>)
           r1 == csInverse(tmp.cs, tmp.v)
       IN encryptBLS377Loop(r1.cs, h, r1.v, key, i + 1)

encryptBLS377(b, h, message, key) ==
  LET r == encryptBLS377Loop(b, h, message, key, 1) IN csAdd(r.cs, <<r.v, key>>)

(* The encryptFuncs table filled by init().                                 *)
encryptFuncs(id, b, h, message, key) ==
  CASE id = "BN254" -> encryptBN256(b, h, message, key)
    [] id = "BLS12_381" -> encryptBLS381(b, h, message, key)
    [] id = "BLS12_377" -> encryptBLS377(b, h, message, key)
    [] id = "BW6_761" -> encryptBW761(b, h, message, key)

-----------------------------------------------------------------------------
(* State machine of the hash gadget: hash states are constructed from      *)
(* (seed, curve), then encrypt is arithmetized on one of them and solved   *)
(* on a witness (message, key).  encrypt only reads the hash state, so one *)
(* circuit per behaviour reaches every pair of a construction history and  *)
(* a circuit.                                                               *)
NewMimcCall ==
  \E id \in MimcCurves, seed \in Seeds :
    /\ wit.h = 0
    /\ Len(built) < MaxBuilt
    /\ built' = Append(built, newMimc(id, seed))
    /\ builtFrom' = Append(builtFrom, [seed |-> seed, id |-> id])
    /\ UNCHANGED <<facadeVars, circuitVars>>

EncryptCall ==
  \E i \in 1..Len(built) :
    wit.h = 0 /\
    LET h == built[i]
        q == Modulus(h.id)
    IN \E m \in Samples(q), k \in Samples(q) :
         LET r == encryptFuncs(h.id, NewBuilder(2), h, Wire(1), Wire(2)) IN
         /\ cs' = r.cs
         /\ out' = <<r.v>>
         /\ wit' = [h |-> i, q |-> q, ext |-> 0, in |-> <<m, k>>]
         /\ sol' = Solve(r.cs, <<m, k>>, q)
         /\ UNCHANGED <<facadeVars, hashVars>>

NextMimc ==
  \/ NewMimcCall
  \/ EncryptCall

SpecMimc == Init /\ [][NextMimc]_vars

-----------------------------------------------------------------------------
(* The Fp2 gadget of package fields, as the tests drive it: an element is  *)
(* a pair (X, Y) of variables standing for X + Y*u with u^2 = uSquare; the *)
(* circuit is compiled over the field of BW6_761, whose scalars are the    *)
(* base field of bls377.                                                    *)
NewFp2Elmt(x, y) == [X |-> x, Y |-> y]

(* Extension{uSquare: 5} and two more non-residues of the model's field.   *)
Extensions == {[uSquare |-> n] : n \in {5, 10, 46}}

(* Largest distance from 0 (on either side, modulo q) of a coordinate.     *)
MaxCoord == 4

Coords(q) == {x \in 0..(q - 1) : x <= MaxCoord \/ x >= q - 1 - MaxCoord}

Fp2Modulus == Modulus("BW6_761")

MulNoNonResidue(b, e1, e2, ext) ==
  LET s1 == csAdd(b, <<e1.X, e1.Y>>)
      s2 == csAdd(s1.cs, <<e2.X, e2.Y>>)
      u == csMul(s2.cs, s1.v, s2.v)
      ac == csMul(u.cs, e1.X, e2.X)
      bd == csMul(ac.cs, e1.Y, e2.Y)
      d1 == csSub(bd.cs, u.v, ac.v)
      y == csSub(d1.cs, d1.v, bd.v)
      x == csAdd(y.cs, <<ac.v, bd.v>>)
  IN [cs |-> x.cs, v |-> NewFp2Elmt(x.v, y.v)]

(* Mul: the three products a0b0, a1b1 and (a0+a1)(b0+b1); the cross term   *)
(* is (a0+a1)(b0+b1) - a0b0 - a1b1 and the first coordinate a0b0 + n*a1b1. *)
Mul(b, e1, e2, ext) ==
  LET s1 == csAdd(b, <<e1.X, e1.Y>>)
      s2 == csAdd(s1.cs, <<e2.X, e2.Y>>)
      u == csMul(s2.cs, s1.v, s2.v)
      ac == csMul(u.cs, e1.X, e2.X)
      bd == csMul(ac.cs, e1.Y, e2.Y)
      d1 == csSub(bd.cs, u.v, ac.v)
      y == csSub(d1.cs, d1.v, bd.v)
      nbd == csScal(y.cs, ext.uSquare, bd.v)
      x == csAdd(nbd.cs, <<ac.v, nbd.v>>)
  IN [cs |-> x.cs, v |-> NewFp2Elmt(x.v, y.v)]

InverseNormPlus(b, e1, ext) ==
  LET a2 == csMul(b, e1.X, e1.X)
      b2 == csMul(a2.cs, e1.Y, e1.Y)
      nb2 == csScal(b2.cs, ext.uSquare, b2.v)
      d == csAdd(nb2.cs, <<a2.v, nb2.v>>)
      dinv == csInverse(d.cs, d.v)
      x == csMul(dinv.cs, e1.X, dinv.v)
      m == csMul(x.cs, e1.Y, dinv.v)
      y == csSub(m.cs, Const(0), m.v)
  IN [cs |-> y.cs, v |-> NewFp2Elmt(x.v, y.v)]

(* Inverse: the norm d = a0^2 - n*a1^2 by two squarings, one scalar        *)
(* multiplication and one subtraction; d^-1 by the inversion gate; the     *)
(* result is (a0*d^-1, -a1*d^-1).                                           *)
Inverse(b, e1, ext) ==
  LET a2 == csMul(b, e1.X, e1.X)
      b2 == csMul(a2.cs, e1.Y, e1.Y)
      nb2 == csScal(b2.cs, ext.uSquare, b2.v)
      d == csSub(nb2.cs, a2.v, nb2.v)
      dinv == csInverse(d.cs, d.v)
      x == csMul(dinv.cs, e1.X, dinv.v)
      m == csMul(x.cs, e1.Y, dinv.v)
      y == csSub(m.cs, Const(0), m.v)
  IN [cs |-> y.cs, v |-> NewFp2Elmt(x.v, y.v)]

(* TestMulFp2: random a and b are drawn, the circuit fp2c = fp2a * fp2b is *)
(* built on the secret inputs a0, a1, b0, b1 and inspected on them.        *)
InitFp2 ==
  /\ InitFacade
  /\ InitHash
  /\ cs = [nin |-> 0, gates |-> <<>>]
  /\ out = <<>>
  /\ sol = [ok |-> TRUE, val |-> <<>>]
  /\ \E ext \in Extensions :
       \E a0 \in Coords(Fp2Modulus), a1 \in Coords(Fp2Modulus),
          b0 \in Coords(Fp2Modulus), b1 \in Coords(Fp2Modulus) :
         wit = [h |-> 0, q |-> Fp2Modulus, ext |-> ext.uSquare, in |-> <<a0, a1, b0, b1>>]

TestMulFp2 ==
  /\ op = "none"
  /\ LET fp2a == NewFp2Elmt(Wire(1), Wire(2))
         fp2b == NewFp2Elmt(Wire(3), Wire(4))
         fp2c == Mul(NewBuilder(4), fp2a, fp2b, [uSquare |-> wit.ext])
     IN /\ cs' = fp2c.cs
        /\ out' = <<fp2c.v.X, fp2c.v.Y>>
        /\ sol' = Solve(fp2c.cs, wit.in, wit.q)
  /\ op' = "MulFp2"
  /\ UNCHANGED <<args, ret, invoked, hashVars, wit>>

(* TestInverseFp2: the circuit fp2c = fp2a^-1 is built on the secret       *)
(* inputs a0, a1 and inspected on the drawn a.                              *)
TestInverseFp2 ==
  /\ op = "none"
  /\ LET fp2a == NewFp2Elmt(Wire(1), Wire(2))
         fp2c == Inverse(NewBuilder(2), fp2a, [uSquare |-> wit.ext])
     IN /\ cs' = fp2c.cs
        /\ out' = <<fp2c.v.X, fp2c.v.Y>>
        /\ sol' = Solve(fp2c.cs, SubSeq(wit.in, 1, 2), wit.q)
  /\ op' = "InverseFp2"
  /\ UNCHANGED <<args, ret, invoked, hashVars, wit>>

(* The inverse multiplied back by its operand: Mul(Inverse(a), a).         *)
MulInverseFp2 ==
  /\ op = "none"
  /\ LET fp2a == NewFp2Elmt(Wire(1), Wire(2))
         fp2i == Inverse(NewBuilder(2), fp2a, [uSquare |-> wit.ext])
         fp2c == Mul(fp2i.cs, fp2i.v, fp2a, [uSquare |-> wit.ext])
     IN /\ cs' = fp2c.cs
        /\ out' = <<fp2c.v.X, fp2c.v.Y>>
        /\ sol' = Solve(fp2c.cs, SubSeq(wit.in, 1, 2), wit.q)
  /\ op' = "MulInverseFp2"
  /\ UNCHANGED <<args, ret, invoked, hashVars, wit>>

NextFp2 ==
  \/ TestMulFp2
  \/ TestInverseFp2
  \/ MulInverseFp2

SpecFp2 == InitFp2 /\ [][NextFp2]_vars

-----------------------------------------------------------------------------
(* Properties of the facade.                                                *)

RegistryProof(p) == \E c \in Curves : p = Dyn(c, "Proof")

RegistryCS(t) == \E c \in Curves : t = Dyn(c, "SparseR1CS")

(* C1: Verify on a proof of a registry curve with a public witness whose   *)
(* vector is not that curve's field vector returns ErrInvalidWitness as a  *)
(* value: no panic, and no curve-specific verifier is invoked.             *)
C1_InvalidWitnessReturned ==
  (op = "Verify" /\ RegistryProof(args.proof)
      /\ args.vector # Dyn(args.proof.curve, "Vector"))
    => (ret = Return(NoArg, NoArg, "ErrInvalidWitness") /\ invoked = <<>>)

C1_Witness ==
  /\ op = "Verify"
  /\ args.proof = Dyn("BN254", "Proof")
  /\ args.vk = Dyn("BN254", "VerifyingKey")
  /\ args.vector = Dyn("BLS12_381", "Vector")
  /\ ret.kind = "return"
  /\ ret.err = "ErrInvalidWitness"

(* C2: Verify on a proof of a registry curve with a verifying key of       *)
(* another curve reports the mismatch as a returned ErrInvalidWitness and  *)
(* never panics.                                                            *)
C2_KeyMismatchIsInvalidWitness ==
  (op = "Verify" /\ RegistryProof(args.proof)
      /\ args.vk # Dyn(args.proof.curve, "VerifyingKey"))
    => (ret.kind = "return" /\ ret.err = "ErrInvalidWitness")

(* C3: Setup on a constraint system outside the registry and Verify on a   *)
(* proof outside the registry panic: nothing is returned and no            *)
(* curve-specific routine is invoked.                                       *)
C3_UnrecognizedIsFatal ==
  /\ (op = "Setup" /\ ~RegistryCS(args.ccs)) => (ret.kind = "panic" /\ invoked = <<>>)
  /\ (op = "Verify" /\ ~RegistryProof(args.proof)) => (ret.kind = "panic" /\ invoked = <<>>)

C3_Witness ==
  /\ op = "Setup"
  /\ args.ccs = Dyn("BN254", "R1CS")
  /\ args.srs = Dyn("BN254", "SRS")
  /\ ret = Panic("unrecognized SparseR1CS curve type")

(* C4: Setup invokes the setup routine of curve X exactly when the         *)
(* constraint system and the reference string are both of curve X; a       *)
(* reference string of another curve reaches no setup routine and yields   *)
(* no keys.                                                                 *)
C4_SetupNoVariantMixing ==
  op = "Setup" =>
    /\ \A X \in Curves :
         (\E i \in 1..Len(invoked) : invoked[i].routine = "Setup" /\ invoked[i].curve = X)
           <=> (args.ccs = Dyn(X, "SparseR1CS") /\ args.srs = Dyn(X, "SRS"))
    /\ \A i \in 1..Len(invoked) :
         invoked[i].with = <<Dyn(invoked[i].curve, "SparseR1CS"), Dyn(invoked[i].curve, "SRS")>>
    /\ (args.srs # Dyn(args.ccs.curve, "SRS")) =>
         (invoked = <<>> /\ ret.val = NoArg /\ ret.val2 = NoArg)
    /\ (ret.kind = "return" /\ ret.err = "nil") =>
         (ret.val.curve = args.srs.curve /\ ret.val2.curve = args.srs.curve)

C4_Witness ==
  /\ op = "Setup"
  /\ args.ccs = Dyn("BW6_761", "SparseR1CS")
  /\ args.srs = Dyn("BLS12_377", "SRS")
  /\ ret.kind = "panic"
  /\ invoked = <<>>

(* C5: Prove on a constraint system of curve X only ever delegates to the  *)
(* prover of curve X (and does so when handed a proving key of curve X),   *)
(* and an error reported by that prover is returned as a value.            *)
C5_ProveDelegatesAndPropagates ==
  (op = "Prove" /\ RegistryCS(args.ccs)) =>
    /\ \A i \in 1..Len(invoked) :
         invoked[i].routine = "Prove" /\ invoked[i].curve = args.ccs.curve
    /\ (args.pk = Dyn(args.ccs.curve, "ProvingKey")) =>
         invoked = <<Delegated("Prove", args.ccs.curve, <<args.ccs, args.pk>>)>>
    /\ (invoked # <<>> /\ args.routine = "error") =>
         ret = Return(NoArg, NoArg, "prover error")
    /\ (invoked # <<>> /\ args.routine = "ok") =>
         ret = Return(Dyn(args.ccs.curve, "Proof"), NoArg, "nil")

C5_Witness ==
  /\ op = "Prove"
  /\ args.ccs = Dyn("BLS24_315", "SparseR1CS")
  /\ args.routine = "error"
  /\ invoked = <<Delegated("Prove", "BLS24_315", <<args.ccs, args.pk>>)>>
  /\ ret.kind = "return"
  /\ ret.err = "prover error"

(* C6: NewCS, NewProvingKey, NewProof and NewVerifyingKey return, for a    *)
(* registry curve, a non-nil artifact of that curve, and panic for any     *)
(* other identifier.                                                        *)
ArtifactOf(name) ==
  CASE name = "NewCS" -> "SparseR1CS"
    [] name = "NewProvingKey" -> "ProvingKey"
    [] name = "NewProof" -> "Proof"
    [] name = "NewVerifyingKey" -> "VerifyingKey"

C6_ConstructorsTotal ==
  op \in {"NewCS", "NewProvingKey", "NewProof", "NewVerifyingKey"} =>
    /\ args.curveID \in Curves =>
         ret = Return(Dyn(args.curveID, ArtifactOf(op)), NoArg, "nil")
    /\ args.curveID \notin Curves => (ret.kind = "panic" /\ ret.val = NoArg)

C6_Witness ==
  /\ op = "NewProof"
  /\ args.curveID = "BLS12_377"
  /\ ret.kind = "return"
  /\ ret.val = Dyn("BLS12_377", "Proof")

-----------------------------------------------------------------------------
(* Properties of the hash gadget.                                           *)

Pow5Curves == {"BN254", "BLS12_381", "BW6_761"}

(* The direct evaluation: x = m, then x = (x + k + c_i)^5 for each c_i in  *)
(* order, and finally x + k.                                                *)
RECURSIVE DirectPow5(_, _, _, _, _)
DirectPow5(x, k, c, i, q) ==
  IF i > Len(c) THEN (x + k) % q
  ELSE LET t == (x + k + c[i]) % q
       IN DirectPow5((t * t * t * t * t) % q, k, c, i + 1, q)

EncryptedOn(ids) == wit.h > 0 /\ built[wit.h].id \in ids

(* C7: under the fifth-power policy the value the solved circuit gives     *)
(* the returned variable equals the direct evaluation of the rounds        *)
(* followed by one more key addition.                                       *)
C7_EncryptEqualsDirect ==
  EncryptedOn(Pow5Curves) =>
    /\ sol.ok
    /\ sol.val[out[1].v] = DirectPow5(wit.in[1], wit.in[2], built[wit.h].params, 1, wit.q)

C7_Witness ==
  /\ EncryptedOn({"BN254"})
  /\ Len(built[wit.h].params) = NbRounds
  /\ wit.in = <<6, 5>>
  /\ sol.ok
  /\ sol.val[out[1].v] = DirectPow5(6, 5, built[wit.h].params, 1, 7)
  /\ sol.val[out[1].v] # (6 + 5) % 7

(* The field's extended inverse: 0 for 0.                                   *)
ExtendedInverse(x, q) == IF x = 0 THEN 0 ELSE CHOOSE y \in 0..(q - 1) : (x * y) % q = 1

(* t of round i when the rounds are evaluated with the extended inverse.   *)
RECURSIVE RoundInput(_, _, _, _, _, _)
RoundInput(x, k, c, i, j, q) ==
  LET t == (x + k + c[j]) % q IN
  IF j = i THEN t ELSE RoundInput(ExtendedInverse(t, q), k, c, i, j + 1, q)

ZeroRounds ==
  {i \in 1..Len(built[wit.h].params) :
     RoundInput(wit.in[1], wit.in[2], built[wit.h].params, i, 1, wit.q) = 0}

(* C8: under the inverse policy a round whose t = message + key + c_i is 0 *)
(* leaves the circuit satisfiable, with round output 0.                    *)
C8_ZeroRoundSatisfiable ==
  (EncryptedOn({"BLS12_377"}) /\ ZeroRounds # {}) =>
    /\ sol.ok
    /\ \A i \in ZeroRounds : sol.val[cs.nin + 2 * i] = 0

EncryptValue(h, m, k) ==
  LET r == encryptFuncs(h.id, NewBuilder(2), h, Wire(1), Wire(2))
      s == Solve(r.cs, <<m, k>>, Modulus(h.id))
  IN [ok |-> s.ok, value |-> IF s.ok THEN s.val[r.v.v] ELSE 0]

-----------------------------------------------------------------------------
(* Properties of the Fp2 gadget.                                            *)

(* C10: the Mul gadget evaluates on the witness to the native product      *)
(* (a0b0 + n*a1b1, a1b0 + a0b1); n = 5, a = (3,4), b = (1,2) gives (43,10). *)
C10_MulEqualsNative ==
  op = "MulFp2" =>
    LET a0 == wit.in[1]
        a1 == wit.in[2]
        b0 == wit.in[3]
        b1 == wit.in[4]
        n == wit.ext
    IN /\ sol.ok
       /\ sol.val[out[1].v] = (a0 * b0 + n * a1 * b1) % wit.q
       /\ sol.val[out[2].v] = (a1 * b0 + a0 * b1) % wit.q
       /\ (n = 5 /\ wit.in = <<3, 4, 1, 2>>) =>
            (sol.val[out[1].v] = 43 /\ sol.val[out[2].v] = 10)

C10_Witness ==
  /\ op = "MulFp2"
  /\ wit.ext = 5
  /\ wit.in = <<3, 4, 1, 2>>
  /\ sol.ok
  /\ sol.val[out[1].v] = 43
  /\ sol.val[out[2].v] = 10

(* The norm of the drawn a, natively.                                       *)
Norm ==
  LET a2 == (wit.in[1] * wit.in[1]) % wit.q
      nb2 == (wit.ext * wit.in[2] * wit.in[2]) % wit.q
  IN ((a2 + wit.q) - nb2) % wit.q

(* C11: for every nonzero a, Mul(Inverse(a), a), with Inverse computed     *)
(* through the norm and the inversion gate, evaluates to (1, 0).           *)
C11_MulInverseIsOne ==
  (op = "MulInverseFp2" /\ (wit.in[1] # 0 \/ wit.in[2] # 0)) =>
    /\ sol.ok
    /\ sol.val[out[1].v] = 1
    /\ sol.val[out[2].v] = 0

C11_Witness ==
  /\ op = "MulInverseFp2"
  /\ wit.ext = 5
  /\ wit.in[1] = 3
  /\ wit.in[2] = 4
  /\ Norm = 23
  /\ sol.ok
  /\ sol.val[out[1].v] = 1
  /\ sol.val[out[2].v] = 0

(* C12: building the Inverse gadget succeeds whatever the operand (the     *)
(* same eight gates and two result variables), and a witness whose norm    *)
(* d = a0^2 - n*a1^2 is 0 satisfies no assignment of the emitted gates:    *)
(* the failure shows when the circuit is solved.                            *)
C12_InverseOfZeroNormUnsatisfiable ==
  op = "InverseFp2" =>
    /\ Len(cs.gates) = 8
    /\ cs.gates[5] = [g |-> "inv", in |-> <<Wire(cs.nin + 4)>>]
    /\ Len(out) = 2
    /\ Norm = 0 => ~sol.ok
    /\ Norm # 0 => sol.ok

C12_Witness ==
  /\ op = "InverseFp2"
  /\ wit.in[1] = 0
  /\ wit.in[2] = 0
  /\ Norm = 0
  /\ Len(cs.gates) = 8
  /\ ~sol.ok
  /\ Len(sol.val) = cs.nin + 4

-----------------------------------------------------------------------------
(* Gate counts of the hash gadget.                                          *)

CountGates(g) == Cardinality({j \in 1..Len(cs.gates) : cs.gates[j].g = g})

Squarings ==
  Cardinality({j \in 1..Len(cs.gates) :
                 cs.gates[j].g = "mul" /\ cs.gates[j].in[1] = cs.gates[j].in[2]})

(* C13: the gates encrypt appends are counted by the number R of round     *)
(* constants alone: 3R multiplications (2R of them squarings) under the    *)
(* fifth-power policy, R inversions under the inverse policy, and in both  *)
(* R additions plus the final key addition.                                 *)
C13_GateCountByRounds ==
  /\ EncryptedOn(Pow5Curves) =>
       LET R == Len(built[wit.h].params) IN
       /\ CountGates("mul") = 3 * R
       /\ Squarings = 2 * R
       /\ CountGates("inv") = 0
       /\ CountGates("add") = R + 1
       /\ Len(cs.gates) = 4 * R + 1
  /\ EncryptedOn({"BLS12_377"}) =>
       LET R == Len(built[wit.h].params) IN
       /\ CountGates("inv") = R
       /\ CountGates("mul") = 0
       /\ CountGates("add") = R + 1
       /\ Len(cs.gates) = 2 * R + 1

C13_Witness ==
  /\ EncryptedOn({"BLS12_381"})
  /\ Len(built[wit.h].params) = NbRounds
  /\ wit.in = <<12, 1>>
  /\ CountGates("mul") = 3 * NbRounds
  /\ CountGates("add") = NbRounds + 1

====
